---- MODULE Spec2Model ----
(***************************************************************************)
(* State-machine model of the split-horizon DNS proxy of                   *)
(* src/wintun/dns.rs (struct DnsServer).                                   *)
(*                                                                         *)
(* Strings are sequences of one-character strings, so that the byte-wise   *)
(* String::ends_with of is_blocked is computed as the code computes it.    *)
(* A domain name (trust_dns Name) is a sequence of labels; to_utf8 joins   *)
(* the labels and terminates each with the label separator.                *)
(* A datagram is a sequence: two header counts (questions, answers)        *)
(* followed by the encoded items; from_bytes decodes it and fails on a     *)
(* truncated or ill-formed one.                                            *)
(* Time is counted in ticks, TicksPerSec ticks to the second.              *)
(* A drain is modelled iteration by iteration: ready starts it, every      *)
(* datagram received is one step, and WouldBlock or an error ends it.      *)
(* A panic (a failed unwrap, an index out of range) stops the engine.      *)
(***************************************************************************)
EXTENDS Integers, Sequences, FiniteSets, TLC

VARIABLES
    pc,               \* position of the engine: "new", "idle", "local", "trusted", "poisoned", "panicked"
    clock,            \* the monotonic clock read by Instant::now()
    now,              \* the local `now` of the drain in progress
    blocked_domains,  \* DnsServer.blocked_domains
    arp_data,         \* DnsServer.arp_data
    dns_cache_time,   \* OPTIONS.wintun_args().dns_cache_time, in seconds
    store,            \* DnsServer.store: name string -> QueryResult
    asked,            \* history: per name, the requesters of the cache-miss queries
                      \* handled since the last processed reply for that name
    unanswered,       \* history: per client, the accepted queries received from it
                      \* minus the datagrams sent to it on the listener socket
    io                \* what the loop iteration just executed received and every
                      \* send it attempted; NoIo between two iterations

vars == <<pc, clock, now, blocked_domains, arp_data, dns_cache_time, store, asked, unanswered, io>>

-----------------------------------------------------------------------------
(* Bounds of the model *)

MaxTime == 2
MaxPending == 2
TicksPerSec == 2

-----------------------------------------------------------------------------
(* Strings *)

Dot == "."

\* String::ends_with: s ends with the bytes of suffix
ends_with(s, suffix) ==
    /\ Len(suffix) <= Len(s)
    /\ SubSeq(s, Len(s) - Len(suffix) + 1, Len(s)) = suffix

\* Name::to_utf8 of a fully-qualified name: every label followed by the separator;
\* the root name is the separator alone
RECURSIVE to_utf8_labels(_)
to_utf8_labels(labels) ==
    IF labels = <<>> THEN <<>>
    ELSE Head(labels) \o <<Dot>> \o to_utf8_labels(Tail(labels))

to_utf8(name) == IF name = <<>> THEN <<Dot>> ELSE to_utf8_labels(name)

\* Name::from_str: split at the separators (a trailing separator ends the last label)
RECURSIVE from_str_acc(_, _, _)
from_str_acc(s, cur, acc) ==
    IF s = <<>> THEN (IF cur = <<>> THEN acc ELSE Append(acc, cur))
    ELSE IF Head(s) = Dot THEN from_str_acc(Tail(s), <<>>, Append(acc, cur))
    ELSE from_str_acc(Tail(s), Append(cur, Head(s)), acc)

Name_from_str(s) == from_str_acc(s, <<>>, <<>>)

\* IpAddr::to_string of an IPv4 address: the octets in decimal, joined by dots
Digit == <<"0", "1", "2", "3", "4", "5", "6", "7", "8", "9">>

RECURSIVE ToDecimal(_)
ToDecimal(n) ==
    IF n < 10 THEN Digit[n + 1] ELSE ToDecimal(n \div 10) \o Digit[(n % 10) + 1]

addr_to_string(ip) ==
    ToDecimal(ip[1]) \o "." \o ToDecimal(ip[2]) \o "." \o ToDecimal(ip[3]) \o "." \o ToDecimal(ip[4])

-----------------------------------------------------------------------------
(* DNS messages and their encoding *)

NoName == <<>>
NoIp == <<>>

Query(name, qtype) ==
    [sec |-> "question", name |-> name, type |-> qtype, ip |-> NoIp, target |-> NoName]

RecordA(name, ip) ==
    [sec |-> "answer", name |-> name, type |-> "A", ip |-> ip, target |-> NoName]

RecordName(name, rtype, target) ==
    [sec |-> "answer", name |-> name, type |-> rtype, ip |-> NoIp, target |-> target]

Message(queries, answers) == [queries |-> queries, answers |-> answers]

\* Message::to_vec: the header counts, then the questions, then the answers
to_vec(message) ==
    <<Len(message.queries), Len(message.answers)>> \o message.queries \o message.answers

DecodeErr == [ok |-> FALSE, message |-> Message(<<>>, <<>>)]

\* Message::from_bytes: reads the header counts, then that many questions and
\* answers; fails on a datagram too short for its header or for its counts, and
\* on an item that is not of the section it stands in
from_bytes(data) ==
    IF Len(data) < 2 THEN DecodeErr
    ELSE LET qd == data[1]
             an == data[2]
         IN  IF Len(data) < 2 + qd + an THEN DecodeErr
             ELSE IF \E i \in 3..(2 + qd) : data[i].sec # "question" THEN DecodeErr
             ELSE IF \E i \in (3 + qd)..(2 + qd + an) : data[i].sec # "answer" THEN DecodeErr
             ELSE [ok |-> TRUE,
                   message |-> Message(SubSeq(data, 3, 2 + qd),
                                       SubSeq(data, 3 + qd, 2 + qd + an))]

\* Message::query_count
query_count(message) == Len(message.queries)

\* RData::to_ip_addr: Some for the address records, None for every other record
to_ip_addr_is_some(record) == record.type \in {"A", "AAAA"}

-----------------------------------------------------------------------------
(* Constants of the program *)

\* the literal "1.0.0.127.in-addr.arpa." of setup and of dispatch_local
PtrNameStr ==
    <<"1", ".", "0", ".", "0", ".", "1", "2", "7", ".",
      "i", "n", "-", "a", "d", "d", "r", ".", "a", "r", "p", "a", ".">>

\* the literal "localhost" of setup
LocalhostStr == <<"l", "o", "c", "a", "l", "h", "o", "s", "t">>

\* the synthetic answer built by setup: one PTR question for the loopback
\* reverse name and one PTR record pointing to localhost
arp_message ==
    LET name == Name_from_str(PtrNameStr)
    IN  Message(<<Query(name, "PTR")>>,
                <<RecordName(name, "PTR", Name_from_str(LocalhostStr))>>)

-----------------------------------------------------------------------------
(* The environment: configurations, clients, datagrams *)

\* blocklist files, as sequences of lines
BlocklistFiles == { <<  <<"b", ".", "t">>  >>, <<>> }

\* configured cache-validity durations, in seconds
CacheTimes == {1}

\* socket addresses of the local clients
Clients == {"A", "B"}

NameBT == << <<"b">>, <<"t">> >>
NamePtr == Name_from_str(PtrNameStr)

\* the names of the questions: one the blocklist file blocks, and the loopback
\* reverse name, which it does not
QueryNames == {NameBT, NamePtr}

Ip1 == <<93, 184, 216, 34>>
Ip2 == <<10, 0, 0, 1>>

\* datagrams that arrive on the listener socket
LocalDatagrams ==
    { to_vec(Message(<<Query(n, t)>>, <<>>)) : n \in QueryNames, t \in {"A", "PTR"} }
    \cup { to_vec(Message(<<Query(NamePtr, "A"), Query(NameBT, "A")>>, <<>>)),  \* two questions
           to_vec(Message(<<>>, <<>>)),                                         \* no question
           <<1, 0>> }                                                           \* truncated

\* answer sections of the upstream replies
AnswerOne(n) == <<RecordA(n, Ip1)>>
AnswerChain(n) == <<RecordA(n, Ip2), RecordName(n, "CNAME", NameBT), RecordA(n, Ip1)>>

\* datagrams that arrive on an upstream socket
UpstreamDatagrams ==
    { to_vec(Message(<<Query(NameBT, "A")>>, AnswerOne(NameBT))),
      to_vec(Message(<<Query(NamePtr, "A")>>, AnswerOne(NamePtr))),
      to_vec(Message(<<Query(NamePtr, "A")>>, AnswerChain(NamePtr))),
      to_vec(Message(<<Query(NamePtr, "A"), Query(NameBT, "A")>>, <<>>)),  \* two questions
      to_vec(Message(<<>>, AnswerOne(NamePtr))),                           \* no question
      <<1, 0>> }                                                           \* truncated

\* the keys the store can hold within these inputs
Keys == { to_utf8(n) : n \in QueryNames }

-----------------------------------------------------------------------------
(* What a step received and sent *)

NoRecv == [res |-> "none", data |-> <<>>, from |-> "none"]
RecvOk(data, from) == [res |-> "Ok", data |-> data, from |-> from]
RecvFailed(kind) == [res |-> kind, data |-> <<>>, from |-> "none"]

\* one send attempt: the bytes, the destination, and whether the call returned Ok
Sent(data, to, ok) == [data |-> data, to |-> to, ok |-> ok]

IoOf(op, recv, listener, trusted, poisoned, reports) ==
    [op |-> op, recv |-> recv, listener |-> listener, trusted |-> trusted,
     poisoned |-> poisoned, reports |-> reports]

Quiet(op, recv) == IoOf(op, recv, <<>>, <<>>, <<>>, <<>>)

NoIo == Quiet("none", NoRecv)

-----------------------------------------------------------------------------
(* DnsServer::new *)

Init ==
    /\ pc = "new"
    /\ clock = 0
    /\ now = 0
    /\ blocked_domains = <<>>
    /\ arp_data = <<>>
    /\ dns_cache_time \in CacheTimes
    /\ store = <<>>
    /\ asked = [k \in Keys |-> <<>>]
    /\ unanswered = [c \in Clients |-> 0]
    /\ io = NoIo

(* DnsServer::setup *)

\* lines 74-78: every line of the file, with the separator appended
load_blocklist(domains, file) ==
    domains \o [i \in 1..Len(file) |-> file[i] \o <<Dot>>]

setup(file) ==
    /\ pc = "new"
    /\ blocked_domains' = load_blocklist(blocked_domains, file)
    /\ arp_data' = to_vec(arp_message)
    /\ pc' = "idle"
    /\ UNCHANGED <<clock, now, dns_cache_time, store, asked, unanswered, io>>

\* a failed connect or File::open: the unwrap aborts the process
setup_panic ==
    /\ pc = "new"
    /\ pc' = "panicked"
    /\ UNCHANGED <<clock, now, blocked_domains, arp_data, dns_cache_time, store, asked, unanswered, io>>

\* time passes between two wake-ups of the engine; within a drain the clock
\* advances where the code reads it
Tick ==
    /\ pc = "idle"
    /\ clock < MaxTime
    /\ clock' = clock + 1
    /\ UNCHANGED <<pc, now, blocked_domains, arp_data, dns_cache_time, store, asked, unanswered, io>>

-----------------------------------------------------------------------------
(* DnsServer::ready: the poller reports a readable socket and the matching    *)
(* drain starts by reading the clock                                          *)

ready(drain) ==
    /\ pc = "idle"
    /\ pc' = drain
    /\ now' = clock
    /\ UNCHANGED <<clock, blocked_domains, arp_data, dns_cache_time, store, asked, unanswered, io>>

ready_local == ready("local")
ready_trusted == ready("trusted")
ready_poisoned == ready("poisoned")

\* recv_from returns WouldBlock or another error: the drain ends, and its
\* local `now` with it
drain_ends(drain, kind) ==
    /\ pc = drain
    /\ io = NoIo
    /\ pc' = "idle"
    /\ now' = 0
    /\ UNCHANGED <<clock, blocked_domains, arp_data, dns_cache_time, store, asked, unanswered, io>>

\* the iteration is over: the loop is back at its recv_from; a process that
\* panicked in the iteration does not come back
next_iteration ==
    /\ pc \in {"local", "trusted", "poisoned"}
    /\ io # NoIo
    /\ io' = NoIo
    /\ UNCHANGED <<pc, clock, now, blocked_domains, arp_data, dns_cache_time, store, asked, unanswered>>

-----------------------------------------------------------------------------
(* DnsServer::dispatch_local, one iteration of its loop *)

accept_local_nonempty(message) == query_count(message) >= 1

\* line 124: exactly one question
accept_local(message) == query_count(message) = 1

is_ptr_query_no_dot(query, name) ==
    query.type = "PTR" /\ name = SubSeq(PtrNameStr, 1, Len(PtrNameStr) - 1)

\* lines 127-128: the loopback reverse-lookup question
is_ptr_query(query, name) == query.type = "PTR" /\ name = PtrNameStr

as_secs_ticks(d) == d

\* Duration::as_secs: whole seconds, the fraction dropped
as_secs(d) == d \div TicksPerSec

\* lines 140-142: a non-empty answer younger than the cache time
cache_valid(result, t) ==
    /\ result.response # <<>>
    /\ as_secs(t - result.update_time) < dns_cache_time

\* DnsServer::is_blocked: some stored entry is a suffix of the name
is_blocked(name) ==
    \E i \in DOMAIN blocked_domains : ends_with(name, blocked_domains[i])

forward_sockets_swapped(blocked) == IF blocked THEN <<"poisoned">> ELSE <<"trusted">>

forward_sockets_both(blocked) == <<"trusted", "poisoned">>

\* lines 153-159: the upstream socket the query is sent on
forward_sockets(blocked) == IF blocked THEN <<"trusted">> ELSE <<"poisoned">>

add_request_evict(st, name, address, t) ==
    IF name \in DOMAIN st
    THEN [st EXCEPT ![name].addresses = Append(@, address)]
    ELSE (name :> [addresses |-> <<address>>, response |-> <<>>, update_time |-> t])

add_request_front(st, name, address, t) ==
    IF name \in DOMAIN st
    THEN [st EXCEPT ![name].addresses = <<address>> \o @]
    ELSE st @@ (name :> [addresses |-> <<address>>, response |-> <<>>, update_time |-> t])

add_request_dedup(st, name, address, t) ==
    IF name \in DOMAIN st
    THEN IF \E k \in 1..Len(st[name].addresses) : st[name].addresses[k] = address
         THEN st
         ELSE [st EXCEPT ![name].addresses = Append(@, address)]
    ELSE st @@ (name :> [addresses |-> <<address>>, response |-> <<>>, update_time |-> t])

add_request_reset(st, name, address, t) ==
    IF name \in DOMAIN st
    THEN [st EXCEPT ![name] = [addresses |-> Append(@.addresses, address),
                               response |-> <<>>, update_time |-> t]]
    ELSE st @@ (name :> [addresses |-> <<address>>, response |-> <<>>, update_time |-> t])

\* DnsServer::add_request: push the address, on a new entry if there is none
add_request(st, name, address, t) ==
    IF name \in DOMAIN st
    THEN [st EXCEPT ![name].addresses = Append(@, address)]
    ELSE st @@ (name :> [addresses |-> <<address>>, response |-> <<>>, update_time |-> t])

\* the number of requesters pending over all the entries
RECURSIVE pending_sum(_, _)
pending_sum(st, names) ==
    IF names = {} THEN 0
    ELSE LET n == CHOOSE x \in names : TRUE
         IN  Len(st[n].addresses) + pending_sum(st, names \ {n})

pending_total(st) == pending_sum(st, DOMAIN st)

\* the bookkeeping of the history variable `unanswered` for the iteration whose
\* receive and sends are i: one more for the sender of an accepted query, one
\* less for the destination of every datagram sent on the listener socket
accounted(balance, i) ==
    [c \in Clients |->
        balance[c]
        + (IF /\ i.op = "local"
              /\ i.recv.from = c
              /\ from_bytes(i.recv.data).ok
              /\ accept_local(from_bytes(i.recv.data).message)
           THEN 1 ELSE 0)
        - Cardinality({k \in 1..Len(i.listener) : i.listener[k].to = c})]

\* the datagram `data` from `from`. The outcome `ok` of the send the iteration
\* attempts and the reading `t` of Instant::now() in add_request are the
\* environment's
dispatch_local_datagram(data, from) ==
    LET decoded == from_bytes(data)
        message == decoded.message
        query == message.queries[1]
        name == to_utf8(query.name)
        recv == RecvOk(data, from)
        sockets == forward_sockets(is_blocked(name))
        forwards(s, ok) ==
            IF \E i \in DOMAIN sockets : sockets[i] = s THEN <<Sent(data, s, ok)>> ELSE <<>>
    IN
    IF ~decoded.ok \/ ~accept_local(message) THEN
        \* lines 161-170: logged and dropped
        /\ io' = Quiet("local", recv)
        /\ UNCHANGED <<pc, store, asked, clock>>
    ELSE IF is_ptr_query(query, name) THEN
        \* lines 130-136
        /\ \E ok \in BOOLEAN :
               io' = IoOf("local", recv, <<Sent(arp_data, from, ok)>>, <<>>, <<>>, <<>>)
        /\ UNCHANGED <<pc, store, asked, clock>>
    ELSE IF name \in DOMAIN store /\ cache_valid(store[name], now) THEN
        \* lines 144-150
        /\ \E ok \in BOOLEAN :
               io' = IoOf("local", recv, <<Sent(store[name].response, from, ok)>>,
                          <<>>, <<>>, <<>>)
        /\ UNCHANGED <<pc, store, asked, clock>>
    ELSE
        \* lines 153-160; a failed upstream send aborts the process at the unwrap
        /\ pending_total(store) < MaxPending
        /\ asked' = [asked EXCEPT ![name] = Append(@, from)]
        /\ \E ok \in BOOLEAN :
               /\ io' = IoOf("local", recv, <<>>, forwards("trusted", ok),
                             forwards("poisoned", ok), <<>>)
               /\ IF ok
                  THEN /\ pc' = pc
                       /\ \E t \in (IF name \in DOMAIN store THEN {clock} ELSE clock..MaxTime) :
                              /\ store' = add_request(store, name, from, t)
                              /\ clock' = t
                  ELSE /\ pc' = "panicked"
                       /\ UNCHANGED <<store, clock>>

dispatch_local_recv ==
    /\ pc = "local"
    /\ io = NoIo
    /\ \E data \in LocalDatagrams, from \in Clients : dispatch_local_datagram(data, from)
    /\ unanswered' = accounted(unanswered, io')
    /\ UNCHANGED <<now, blocked_domains, arp_data, dns_cache_time>>

dispatch_local_would_block == drain_ends("local", "WouldBlock")
dispatch_local_recv_err == drain_ends("local", "Err")

-----------------------------------------------------------------------------
(* DnsServer::dispatch_server, one iteration of its loop *)

replies_to_first(result, data, failed) ==
    [i \in 1..(IF result.addresses = <<>> THEN 0 ELSE 1) |->
        Sent(data, result.addresses[i], i \notin failed)]

\* lines 196-202: the reply to every address of the entry, in order
replies_to(result, data, failed) ==
    [i \in 1..Len(result.addresses) |-> Sent(data, result.addresses[i], i \notin failed)]

route_reports_first(message, failed) ==
    LET ips == SelectSeq(message.answers, to_ip_addr_is_some)
    IN  [i \in 1..(IF ips = <<>> THEN 0 ELSE 1) |->
            Sent(addr_to_string(ips[i].ip), "route", i \notin failed)]

route_reports_until_failure(message, failed) ==
    LET ips == SelectSeq(message.answers, to_ip_addr_is_some)
        bad == failed \cap (1..Len(ips))
        last == IF bad = {} THEN Len(ips) ELSE CHOOSE k \in bad : \A j \in bad : k <= j
    IN  [i \in 1..last |-> Sent(addr_to_string(ips[i].ip), "route", i \notin failed)]

\* lines 203-211: one try_send per answer record that carries an address
route_reports(message, failed) ==
    LET ips == SelectSeq(message.answers, to_ip_addr_is_some)
    IN  [i \in 1..Len(ips) |-> Sent(addr_to_string(ips[i].ip), "route", i \notin failed)]

updated_result_keep_time(result, data, t) ==
    [addresses |-> <<>>, response |-> data, update_time |-> result.update_time]

\* lines 212-215
updated_result(result, data, t) ==
    [addresses |-> <<>>, response |-> data, update_time |-> t]

NoResult == [addresses |-> <<>>, response |-> <<>>, update_time |-> 0]

get_mut_any(st, name) ==
    IF DOMAIN st # {}
    THEN [some |-> TRUE, result |-> st[CHOOSE n \in DOMAIN st : n # name \/ DOMAIN st = {name}]]
    ELSE [some |-> FALSE, result |-> NoResult]

get_mut_or_insert(st, name) ==
    [some |-> TRUE, result |-> IF name \in DOMAIN st THEN st[name] ELSE NoResult]

\* line 195: store.get_mut(&name)
get_mut(st, name) ==
    IF name \in DOMAIN st
    THEN [some |-> TRUE, result |-> st[name]]
    ELSE [some |-> FALSE, result |-> NoResult]

\* the number of sends and of route reports the datagram will cause
sends_for(data) ==
    LET decoded == from_bytes(data)
    IN  IF decoded.ok /\ decoded.message.queries # <<>>
        THEN LET found == get_mut(store, to_utf8(decoded.message.queries[1].name))
             IN  IF found.some THEN Len(found.result.addresses) ELSE 0
        ELSE 0

reports_for(data) ==
    LET decoded == from_bytes(data)
    IN  IF decoded.ok THEN Len(SelectSeq(decoded.message.answers, to_ip_addr_is_some)) ELSE 0

dispatch_server_datagram_split(drain, data, failed_sends, failed_reports) ==
    LET decoded == from_bytes(data)
        message == decoded.message
        name == to_utf8(message.queries[1].name)
        found == get_mut(store, name)
        recv == RecvOk(data, "upstream")
    IN
    IF ~decoded.ok THEN
        /\ io' = Quiet(drain, recv)
        /\ UNCHANGED <<pc, store, asked>>
    ELSE IF message.queries = <<>> THEN
        /\ io' = Quiet(drain, recv)
        /\ pc' = "panicked"
        /\ UNCHANGED <<store, asked>>
    ELSE IF ~found.some \/ (drain = "poisoned" /\ is_blocked(name)) THEN
        /\ io' = Quiet(drain, recv)
        /\ UNCHANGED <<pc, store, asked>>
    ELSE
        /\ io' = IoOf(drain, recv, replies_to(found.result, data, failed_sends), <<>>, <<>>,
                      route_reports(message, failed_reports))
        /\ store' = (name :> updated_result(found.result, data, now)) @@ store
        /\ asked' = [asked EXCEPT ![name] = <<>>]
        /\ pc' = pc

\* the datagram `data` on the upstream socket `drain`; `failed_sends` and
\* `failed_reports` are the positions of the sends that return an error
dispatch_server_datagram(drain, data, failed_sends, failed_reports) ==
    LET decoded == from_bytes(data)
        message == decoded.message
        name == to_utf8(message.queries[1].name)
        found == get_mut(store, name)
        recv == RecvOk(data, "upstream")
    IN
    IF ~decoded.ok THEN
        \* line 218
        /\ io' = Quiet(drain, recv)
        /\ UNCHANGED <<pc, store, asked>>
    ELSE IF message.queries = <<>> THEN
        \* line 194: queries()[0] of an empty slice aborts the process
        /\ io' = Quiet(drain, recv)
        /\ pc' = "panicked"
        /\ UNCHANGED <<store, asked>>
    ELSE IF ~found.some THEN
        /\ io' = Quiet(drain, recv)
        /\ UNCHANGED <<pc, store, asked>>
    ELSE
        /\ io' = IoOf(drain, recv, replies_to(found.result, data, failed_sends), <<>>, <<>>,
                      route_reports(message, failed_reports))
        /\ store' = (name :> updated_result(found.result, data, now)) @@ store
        /\ asked' = [asked EXCEPT ![name] = <<>>]
        /\ pc' = pc

dispatch_server(drain) ==
    /\ pc = drain
    /\ io = NoIo
    /\ \E data \in UpstreamDatagrams :
           \E failed_sends \in SUBSET (1..sends_for(data)),
              failed_reports \in SUBSET (1..reports_for(data)) :
               dispatch_server_datagram(drain, data, failed_sends, failed_reports)
    /\ unanswered' = accounted(unanswered, io')
    /\ UNCHANGED <<clock, now, blocked_domains, arp_data, dns_cache_time>>

dispatch_trusted_recv == dispatch_server("trusted")
dispatch_poisoned_recv == dispatch_server("poisoned")

dispatch_trusted_would_block == drain_ends("trusted", "WouldBlock")
dispatch_trusted_recv_err == drain_ends("trusted", "Err")
dispatch_poisoned_would_block == drain_ends("poisoned", "WouldBlock")
dispatch_poisoned_recv_err == drain_ends("poisoned", "Err")

-----------------------------------------------------------------------------

Next ==
    \/ \E file \in BlocklistFiles : setup(file)
    \/ setup_panic
    \/ Tick
    \/ ready_local
    \/ ready_trusted
    \/ ready_poisoned
    \/ dispatch_local_recv
    \/ dispatch_local_would_block
    \/ dispatch_local_recv_err
    \/ dispatch_trusted_recv
    \/ dispatch_trusted_would_block
    \/ dispatch_trusted_recv_err
    \/ dispatch_poisoned_recv
    \/ dispatch_poisoned_would_block
    \/ dispatch_poisoned_recv_err
    \/ next_iteration

Spec == Init /\ [][Next]_vars

-----------------------------------------------------------------------------
(* The classification alone: is_blocked applied to the names of a bounded    *)
(* set, over the blocklists setup stores for the files of a bounded set      *)

MaxLabels == 2

ClassifyLabels == { <<"a">>, <<"b">>, <<"a", "b">>, <<"b", "a">> }

\* names of at most n labels
RECURSIVE NamesUpTo(_)
NamesUpTo(n) ==
    IF n = 0 THEN { <<>> }
    ELSE LET shorter == NamesUpTo(n - 1)
         IN  shorter \cup { Append(name, l) : name \in shorter, l \in ClassifyLabels }

ClassifyNames == NamesUpTo(MaxLabels)

\* a domain as a line of the blocklist file: the labels joined by the
\* separator, no separator at the end
line_of(name) == SubSeq(to_utf8(name), 1, Len(to_utf8(name)) - 1)

ClassifyLines == { line_of(name) : name \in ClassifyNames \ { <<>> } }

ClassifyFiles ==
    { <<l>> : l \in ClassifyLines }
    \cup { <<l1, l2>> : l1 \in { line_of(<<l>>) : l \in ClassifyLabels }, l2 \in ClassifyLines }

InitClassify ==
    /\ pc = "classify"
    /\ clock = 0
    /\ now = 0
    /\ \E file \in ClassifyFiles : blocked_domains = load_blocklist(<<>>, file)
    /\ arp_data = <<>>
    /\ dns_cache_time \in CacheTimes
    /\ store = <<>>
    /\ asked = [k \in Keys |-> <<>>]
    /\ unanswered = [c \in Clients |-> 0]
    /\ io = NoIo

\* the name of a question, classified as dispatch_local classifies it (line 153)
classify(name) ==
    /\ pc = "classify"
    /\ io' = [op |-> "is_blocked", name |-> to_utf8(name), blocked |-> is_blocked(to_utf8(name))]
    /\ UNCHANGED <<pc, clock, now, blocked_domains, arp_data, dns_cache_time, store, asked, unanswered>>

NextClassify == \E name \in ClassifyNames : classify(name)

SpecClassify == InitClassify /\ [][NextClassify]_vars

-----------------------------------------------------------------------------
(* Claims *)

\* D ends with S at a label boundary: the labels of S are the last labels of D
ends_with_labels(D, S) ==
    LET d == Name_from_str(D)
        e == Name_from_str(S)
    IN  /\ Len(e) <= Len(d)
        /\ SubSeq(d, Len(d) - Len(e) + 1, Len(d)) = e

\* C1: a name is classified as blocked if it ends with a stored blocklist entry
\* at a label boundary, and as not blocked if it ends with the entries only
\* inside a label (as "notexample.com." ends with the entry of "example.com").
C1_LabelBoundaryClassification ==
    io.op = "is_blocked" =>
        (io.blocked <=> \E i \in DOMAIN blocked_domains :
                            ends_with_labels(io.name, blocked_domains[i]))

-----------------------------------------------------------------------------
(* Vocabulary of the claims about the engine *)

Decodes(data) == from_bytes(data).ok
Questions(data) == from_bytes(data).message.queries
Answers(data) == from_bytes(data).message.answers
SingleQuestion(data) == Decodes(data) /\ Len(Questions(data)) = 1
FirstName(data) == to_utf8(Questions(data)[1].name)

\* the single question is the reverse lookup of the loopback address
LoopbackPtr(data) ==
    /\ SingleQuestion(data)
    /\ Questions(data)[1].type = "PTR"
    /\ FirstName(data) = PtrNameStr

\* the entry of the name holds an answer written less than the cache time
\* before time t
Fresh(name, t) ==
    /\ name \in DOMAIN store
    /\ store[name].response # <<>>
    /\ t < store[name].update_time + dns_cache_time * TicksPerSec

\* the step is one iteration of the loop of dispatch_local on a datagram
LocalIteration == pc = "local" /\ io = NoIo /\ io'.op = "local"

\* the step is one iteration of the loop of dispatch_server on a datagram
ServerIteration == pc \in {"trusted", "poisoned"} /\ io = NoIo /\ io'.op = pc

\* the step is a cache-miss query: accepted, not the loopback PTR query, no
\* fresh answer in the cache
MissIteration ==
    /\ LocalIteration
    /\ SingleQuestion(io'.recv.data)
    /\ ~LoopbackPtr(io'.recv.data)
    /\ ~Fresh(FirstName(io'.recv.data), now)

\* the step handles an upstream reply whose first question names an entry
TrackedReplyIteration ==
    /\ ServerIteration
    /\ Decodes(io'.recv.data)
    /\ Questions(io'.recv.data) # <<>>
    /\ FirstName(io'.recv.data) \in DOMAIN store

Destinations(sends) == [i \in 1..Len(sends) |-> sends[i].to]

-----------------------------------------------------------------------------

\* C2: a cache-miss query is sent, unmodified, on exactly one upstream socket:
\* the trusted one iff the name is blocked, else the poisoned one; the blocklist
\* that decides it never changes after setup.
C2_OneUpstreamByClassification ==
    [][ /\ pc # "new" => blocked_domains' = blocked_domains
        /\ MissIteration =>
             LET data == io'.recv.data
                 sent == io'.trusted \o io'.poisoned
             IN  /\ Len(sent) = 1
                 /\ sent[1].data = data
                 /\ is_blocked(FirstName(data)) => Destinations(io'.trusted) = <<"trusted">>
                 /\ ~is_blocked(FirstName(data)) => Destinations(io'.poisoned) = <<"poisoned">>
      ]_vars

C2_Witness ==
    /\ io.op = "local"
    /\ SingleQuestion(io.recv.data)
    /\ is_blocked(FirstName(io.recv.data))
    /\ io.trusted = <<Sent(io.recv.data, "trusted", TRUE)>>
    /\ io.poisoned = <<>>

\* C3 as stated: a single-question query for a name whose cached answer P is
\* younger than the cache time is answered with exactly P sent to the requester,
\* nothing is sent upstream and the requester is not recorded.
C3_AnyQueryForCachedName ==
    [][ ( /\ LocalIteration
          /\ SingleQuestion(io'.recv.data)
          /\ Fresh(FirstName(io'.recv.data), now) )
        => /\ Len(io'.listener) = 1
           /\ io'.listener[1].data = store[FirstName(io'.recv.data)].response
           /\ io'.listener[1].to = io'.recv.from
           /\ io'.trusted = <<>>
           /\ io'.poisoned = <<>>
           /\ store' = store
      ]_vars

\* C3 amended: the same, for every such query other than the loopback PTR
\* query, which is answered with the synthetic PTR message even when the cache
\* holds a fresh answer for its name.
C3_CacheHit ==
    [][ ( /\ LocalIteration
          /\ SingleQuestion(io'.recv.data)
          /\ ~LoopbackPtr(io'.recv.data)
          /\ Fresh(FirstName(io'.recv.data), now) )
        => /\ Len(io'.listener) = 1
           /\ io'.listener[1].data = store[FirstName(io'.recv.data)].response
           /\ io'.listener[1].to = io'.recv.from
           /\ io'.trusted = <<>>
           /\ io'.poisoned = <<>>
           /\ store' = store
           /\ asked' = asked
      ]_vars

\* a cached answer one tick short of the cache time is served
C3_Witness ==
    /\ io.op = "local"
    /\ SingleQuestion(io.recv.data)
    /\ ~LoopbackPtr(io.recv.data)
    /\ FirstName(io.recv.data) \in DOMAIN store
    /\ store[FirstName(io.recv.data)].response # <<>>
    /\ now = store[FirstName(io.recv.data)].update_time + dns_cache_time * TicksPerSec - 1
    /\ io.listener = <<Sent(store[FirstName(io.recv.data)].response, io.recv.from, TRUE)>>
    /\ io.trusted = <<>>
    /\ io.poisoned = <<>>

\* C4: a single-question query (other than the loopback PTR query) for a name
\* whose entry holds an answer as old as the cache time or older, or no answer
\* yet, is not answered from the cache: it is sent on one upstream socket and its
\* requester is appended to the pending requesters of the name.
C4_ExpiredOrEmptyIsForwarded ==
    [][ ( /\ LocalIteration
          /\ SingleQuestion(io'.recv.data)
          /\ ~LoopbackPtr(io'.recv.data)
          /\ FirstName(io'.recv.data) \in DOMAIN store
          /\ \/ store[FirstName(io'.recv.data)].response = <<>>
             \/ now >= store[FirstName(io'.recv.data)].update_time
                           + dns_cache_time * TicksPerSec )
        => LET name == FirstName(io'.recv.data)
           IN  /\ io'.listener = <<>>
               /\ Len(io'.trusted \o io'.poisoned) = 1
               /\ store'[name].addresses = Append(store[name].addresses, io'.recv.from)
      ]_vars

\* C5: when an upstream reply for a name is processed, every requester whose
\* cache-miss query for the name was handled since the last reply for it is sent
\* the reply's bytes on the listener socket, and no requester is pending on the
\* name afterwards.
C5_Coalescing ==
    [][ TrackedReplyIteration =>
          LET data == io'.recv.data
              name == FirstName(data)
          IN  /\ Destinations(io'.listener) = asked[name]
              /\ \A i \in 1..Len(io'.listener) : io'.listener[i].data = data
              /\ store'[name].addresses = <<>>
      ]_vars

\* two different requesters are served by one reply
C5_Witness ==
    /\ io.op \in {"trusted", "poisoned"}
    /\ Len(io.listener) = 2
    /\ io.listener[1].to # io.listener[2].to
    /\ io.listener[1].data = io.recv.data
    /\ io.listener[2].data = io.recv.data
    /\ store[FirstName(io.recv.data)].addresses = <<>>

\* C6: an upstream reply whose first question names no entry of the cache sends
\* nothing on the listener socket, reports no route and leaves the cache as it is.
C6_SilentDrop ==
    [][ ( /\ ServerIteration
          /\ Decodes(io'.recv.data)
          /\ Questions(io'.recv.data) # <<>>
          /\ FirstName(io'.recv.data) \notin DOMAIN store )
        => /\ io'.listener = <<>>
           /\ io'.reports = <<>>
           /\ io'.trusted = <<>>
           /\ io'.poisoned = <<>>
           /\ store' = store
      ]_vars

\* a reply carrying an address for a name that was never queried
C6_Witness ==
    /\ io.op \in {"trusted", "poisoned"}
    /\ Decodes(io.recv.data)
    /\ Questions(io.recv.data) # <<>>
    /\ FirstName(io.recv.data) \notin DOMAIN store
    /\ \E i \in DOMAIN Answers(io.recv.data) : Answers(io.recv.data)[i].type = "A"
    /\ io.listener = <<>>
    /\ io.reports = <<>>

\* C7: the loopback PTR query is answered with the message setup encoded (the
\* PTR question with one PTR record pointing to localhost), sent to the
\* requester; nothing is sent upstream and the cache does not change.
C7_PtrShortcut ==
    [][ ( LocalIteration /\ LoopbackPtr(io'.recv.data) )
        => /\ Len(io'.listener) = 1
           /\ io'.listener[1].data = arp_data
           /\ io'.listener[1].to = io'.recv.from
           /\ LoopbackPtr(arp_data)
           /\ Len(Answers(arp_data)) = 1
           /\ Answers(arp_data)[1].type = "PTR"
           /\ to_utf8(Answers(arp_data)[1].name) = PtrNameStr
           /\ Answers(arp_data)[1].target = <<LocalhostStr>>
           /\ io'.trusted = <<>>
           /\ io'.poisoned = <<>>
           /\ store' = store
      ]_vars

\* the synthetic answer is sent although the cache holds a fresh answer for the
\* very name
C7_Witness ==
    /\ io.op = "local"
    /\ LoopbackPtr(io.recv.data)
    /\ Fresh(PtrNameStr, now)
    /\ io.listener = <<Sent(arp_data, io.recv.from, TRUE)>>
    /\ io.trusted = <<>>
    /\ io.poisoned = <<>>

\* C8: a local datagram that does not decode, or whose question count is not
\* one, sends nothing, leaves the cache as it is, and the drain goes on.
C8_MalformedDropped ==
    [][ ( LocalIteration /\ ~SingleQuestion(io'.recv.data) )
        => /\ io'.listener = <<>>
           /\ io'.trusted = <<>>
           /\ io'.poisoned = <<>>
           /\ io'.reports = <<>>
           /\ store' = store
           /\ pc' = "local"
      ]_vars

\* a datagram with two questions has been dropped
C8_Witness ==
    /\ io.op = "local"
    /\ pc = "local"
    /\ Decodes(io.recv.data)
    /\ Len(Questions(io.recv.data)) = 2
    /\ io.listener = <<>>
    /\ io.trusted = <<>>
    /\ io.poisoned = <<>>

\* the texts of the addresses carried by the answer records, in record order
RECURSIVE AddressTexts(_)
AddressTexts(answers) ==
    IF answers = <<>> THEN <<>>
    ELSE IF Head(answers).type \in {"A", "AAAA"}
         THEN <<addr_to_string(Head(answers).ip)>> \o AddressTexts(Tail(answers))
         ELSE AddressTexts(Tail(answers))

\* C9: an upstream reply for a tracked name causes one route report per answer
\* record that carries an address, with the address as text, in record order,
\* and none for the other records; and one copy of the reply per requester
\* pending on the name, in order.
C9_OneReportPerAddress ==
    [][ TrackedReplyIteration =>
          LET data == io'.recv.data
              name == FirstName(data)
          IN  /\ [i \in 1..Len(io'.reports) |-> io'.reports[i].data] = AddressTexts(Answers(data))
              /\ Answers(data) = <<RecordA(Questions(data)[1].name, Ip1)>>
                     => Len(io'.reports) = 1 /\ io'.reports[1].data = "93.184.216.34"
              /\ Destinations(io'.reports) = [i \in 1..Len(io'.reports) |-> "route"]
              /\ Destinations(io'.listener) = store[name].addresses
              /\ \A i \in 1..Len(io'.listener) : io'.listener[i].data = data
      ]_vars

\* one A record, one pending requester: one report, one reply
C9_Witness ==
    /\ io.op \in {"trusted", "poisoned"}
    /\ Len(Answers(io.recv.data)) = 1
    /\ io.reports = <<Sent("93.184.216.34", "route", TRUE)>>
    /\ Len(io.listener) = 1
    /\ io.listener[1].data = io.recv.data

\* C10: handling one local datagram sends at most one datagram: one reply on the
\* listener socket (the synthetic PTR message or the cached answer) or one
\* forward on one upstream socket for an accepted query, none for a rejected one.
C10_AtMostOneOutbound ==
    [][ LocalIteration =>
          LET data == io'.recv.data
              total == Len(io'.listener) + Len(io'.trusted) + Len(io'.poisoned)
          IN  /\ total <= 1
              /\ io'.reports = <<>>
              /\ total = (IF SingleQuestion(data) THEN 1 ELSE 0)
              /\ \A i \in 1..Len(io'.listener) :
                     /\ io'.listener[i].to = io'.recv.from
                     /\ \/ io'.listener[i].data = arp_data
                        \/ /\ FirstName(data) \in DOMAIN store
                           /\ io'.listener[i].data = store[FirstName(data)].response
              /\ \A i \in 1..Len(io'.trusted \o io'.poisoned) :
                     (io'.trusted \o io'.poisoned)[i].data = data
      ]_vars

\* a query has been forwarded on the poisoned socket alone
C10_Witness ==
    /\ io.op = "local"
    /\ SingleQuestion(io.recv.data)
    /\ io.listener = <<>>
    /\ io.trusted = <<>>
    /\ Len(io.poisoned) = 1

-----------------------------------------------------------------------------

\* every send the iteration attempted, on any socket and on the route channel
AllSends(i) == i.listener \o i.trusted \o i.poisoned \o i.reports

\* at least one of the sends of the iteration returned an error
SomeSendFailed(i) == \E k \in 1..Len(AllSends(i)) : ~AllSends(i)[k].ok

\* C11: a failed send (a reply on the listener socket, or a forward to the
\* trusted or poisoned upstream) is not fatal: the drain loop the iteration is
\* part of goes on, and the remaining pending requesters are still sent the
\* reply.
C11_DeliveryErrorsNotFatal ==
    [][ ( /\ LocalIteration \/ ServerIteration
          /\ SomeSendFailed(io') )
        => /\ pc' = pc
           /\ TrackedReplyIteration =>
                Destinations(io'.listener) = store[FirstName(io'.recv.data)].addresses
      ]_vars

\* C12: after setup no received datagram aborts the engine: an iteration all of
\* whose sends succeed leaves the drain loop running, whatever the datagram; a
\* decodable upstream reply is matched by its first question or dropped.
C12_NoDatagramAborts ==
    [][ ( /\ LocalIteration \/ ServerIteration
          /\ ~SomeSendFailed(io') )
        => /\ pc' = pc
           /\ ( ServerIteration /\ ~TrackedReplyIteration )
                => AllSends(io') = <<>> /\ store' = store
      ]_vars

\* C13: processing an upstream reply for a tracked name N leaves the entry of N
\* with update_time = the time of this drain, no pending address, and response =
\* exactly the bytes of this reply, the previous answer being replaced; also
\* when no address was pending. No other entry changes.
C13_ReplyOverwritesEntry ==
    [][ TrackedReplyIteration =>
          LET data == io'.recv.data
              name == FirstName(data)
          IN  /\ DOMAIN store' = DOMAIN store
              /\ store'[name].update_time = now
              /\ store'[name].addresses = <<>>
              /\ store'[name].response = data
              /\ \A other \in DOMAIN store \ {name} : store'[other] = store[other]
      ]_vars

\* a reply for a name with no pending address has been processed at a time
\* later than the entry's creation: nothing was sent, the entry holds the reply
C13_Witness ==
    /\ io.op \in {"trusted", "poisoned"}
    /\ pc = io.op
    /\ Decodes(io.recv.data)
    /\ Questions(io.recv.data) # <<>>
    /\ FirstName(io.recv.data) \in DOMAIN store
    /\ io.listener = <<>>
    /\ now > 0
    /\ store[FirstName(io.recv.data)] =
           [addresses |-> <<>>, response |-> io.recv.data, update_time |-> now]

\* the step forwards the query of a cache miss and the upstream send succeeds
ForwardedIteration ==
    /\ MissIteration
    /\ ~SomeSendFailed(io')
    /\ Len(io'.trusted \o io'.poisoned) = 1

\* C14 as stated: the store has an entry for a name iff a query for that name
\* has reached the engine, so every single-question query handled while every
\* send succeeds leaves an entry for its name; and no step removes an entry.
C14_EntryIffQueried ==
    [][ /\ DOMAIN store \subseteq DOMAIN store'
        /\ ( /\ LocalIteration
             /\ SingleQuestion(io'.recv.data)
             /\ ~SomeSendFailed(io') )
           => FirstName(io'.recv.data) \in DOMAIN store'
      ]_vars

\* C14 amended: the store, empty at the start, has an entry for a name iff a
\* query for that name has been forwarded upstream: the forward of a query adds
\* the entry of its name if there is none, no other step adds an entry (the
\* loopback PTR query and the rejected datagrams add none), and no step removes
\* one.
C14_EntryIffForwarded ==
    [][ /\ pc = "new" => store = <<>>
        /\ DOMAIN store \subseteq DOMAIN store'
        /\ ForwardedIteration
             => DOMAIN store' = DOMAIN store \cup {FirstName(io'.recv.data)}
        /\ ~ForwardedIteration => DOMAIN store' = DOMAIN store
      ]_vars

\* the query for a second name has been forwarded: both names have an entry
C14_Witness ==
    /\ io.op = "local"
    /\ SingleQuestion(io.recv.data)
    /\ Len(io.trusted \o io.poisoned) = 1
    /\ ~SomeSendFailed(io)
    /\ FirstName(io.recv.data) \in DOMAIN store
    /\ store[FirstName(io.recv.data)].response = <<>>
    /\ Cardinality(DOMAIN store) = 2

\* at least one route report of the iteration was refused by the channel
SomeReportFailed(i) == \E k \in 1..Len(i.reports) : ~i.reports[k].ok

\* C15: a route report that fails drops that address only: every address record
\* of the reply is still reported exactly once, in order (no retry, the later
\* ones included), every pending requester is still sent the reply, the entry is
\* updated as on success, and the drain goes on.
C15_FailedReportDropsOneAddress ==
    [][ ( TrackedReplyIteration /\ SomeReportFailed(io') ) =>
          LET data == io'.recv.data
              name == FirstName(data)
          IN  /\ [i \in 1..Len(io'.reports) |-> io'.reports[i].data] = AddressTexts(Answers(data))
              /\ Destinations(io'.listener) = store[name].addresses
              /\ \A i \in 1..Len(io'.listener) : io'.listener[i].data = data
              /\ store' = (name :> [addresses |-> <<>>, response |-> data, update_time |-> now])
                              @@ store
              /\ pc' = pc
      ]_vars

\* the first of two reports failed, the second was made, a requester was sent
\* the reply and the entry holds it
C15_Witness ==
    /\ io.op \in {"trusted", "poisoned"}
    /\ pc = io.op
    /\ Len(io.reports) = 2
    /\ ~io.reports[1].ok
    /\ io.reports[2].ok
    /\ Len(io.listener) >= 1
    /\ io.listener[1].data = io.recv.data
    /\ store[FirstName(io.recv.data)].response = io.recv.data

\* sequence s is the beginning of sequence t
IsPrefix(s, t) == Len(s) <= Len(t) /\ SubSeq(t, 1, Len(s)) = s

\* the step processes an upstream reply whose first question is `name`
ReplyIterationFor(name) == TrackedReplyIteration /\ FirstName(io'.recv.data) = name

\* C16: an address pending on a name stays pending, at its position, in every
\* step but the processing of an upstream reply for that name (queries, replies
\* for other names and the passage of time remove nothing); and a datagram goes
\* upstream only in the iteration that received it from a client, once.
C16_NoRetryNoGiveUp ==
    [][ /\ \A name \in DOMAIN store :
               ~ReplyIterationFor(name)
                   => /\ name \in DOMAIN store'
                      /\ IsPrefix(store[name].addresses, store'[name].addresses)
        /\ io' # io =>
               LET sent == io'.trusted \o io'.poisoned
               IN  /\ Len(sent) <= 1
                   /\ sent # <<>> => /\ LocalIteration
                                     /\ sent[1].data = io'.recv.data
      ]_vars

\* a reply for one name has been processed while an address is pending on the
\* other name, and time has passed since the engine started
C16_Witness ==
    /\ io.op \in {"trusted", "poisoned"}
    /\ Decodes(io.recv.data)
    /\ Questions(io.recv.data) # <<>>
    /\ FirstName(io.recv.data) \in DOMAIN store
    /\ io.listener # <<>>
    /\ clock > 0
    /\ \E other \in DOMAIN store \ {FirstName(io.recv.data)} :
           store[other].addresses # <<>>

\* the answer held under a name is an upstream reply whose first question has
\* that name
CachedUnderOwnName ==
    \A name \in DOMAIN store :
        store[name].response # <<>>
            => /\ Decodes(store[name].response)
               /\ Questions(store[name].response) # <<>>
               /\ FirstName(store[name].response) = name

\* C17: a datagram is sent on the listener socket only (a) to the sender of the
\* loopback PTR query, and it is the synthetic PTR message, (b) to the sender
\* of a query for a name, and it is the cached upstream reply whose first
\* question has that name, or (c) to the clients whose query for the name of the
\* first question of the upstream reply being processed was forwarded, and it is
\* that reply.
C17_NameMatchedDelivery ==
    [][ /\ CachedUnderOwnName
        /\ ( io' # io /\ io'.listener # <<>> ) =>
             LET data == io'.recv.data
                 sent == io'.listener
             IN  \/ /\ LocalIteration
                    /\ SingleQuestion(data)
                    /\ Destinations(sent) = <<io'.recv.from>>
                    /\ IF LoopbackPtr(data)
                       THEN sent[1].data = arp_data
                       ELSE /\ FirstName(data) \in DOMAIN store
                            /\ sent[1].data = store[FirstName(data)].response
                            /\ sent[1].data # <<>>
                 \/ /\ ServerIteration
                    /\ Decodes(data)
                    /\ Questions(data) # <<>>
                    /\ Destinations(sent) = asked[FirstName(data)]
                    /\ \A i \in 1..Len(sent) : sent[i].data = data
      ]_vars

\* a reply for the blocked name has been sent to the one client that asked for
\* it, while the other client waits for the other name
C17_Witness ==
    /\ io.op \in {"trusted", "poisoned"}
    /\ Decodes(io.recv.data)
    /\ Questions(io.recv.data) # <<>>
    /\ FirstName(io.recv.data) = to_utf8(NameBT)
    /\ io.listener = <<Sent(io.recv.data, "A", TRUE)>>
    /\ to_utf8(NamePtr) \in DOMAIN store
    /\ store[to_utf8(NamePtr)].addresses = <<"B">>

\* the addresses pending on a name, none when the name has no entry
Pending(name) == IF name \in DOMAIN store THEN store[name].addresses ELSE <<>>

\* the senders of the queries for the name forwarded since the last processed
\* reply for it: the attempts recorded in `asked`, less the one whose send
\* failed and ended the process
Forwarded(name) ==
    IF /\ pc = "panicked"
       /\ io.op = "local"
       /\ FirstName(io.recv.data) = name
    THEN SubSeq(asked[name], 1, Len(asked[name]) - 1)
    ELSE asked[name]

\* C18, states: for every name the pending addresses are the senders of the
\* queries for it forwarded since the last processed reply for it, so their
\* numbers are equal; and no client has been sent more datagrams on the
\* listener socket than accepted queries were received from it.
PendingMatchesForwards ==
    /\ \A name \in Keys : Pending(name) = Forwarded(name)
    /\ \A c \in Clients : unanswered[c] >= 0

\* C18: the above in every state; and in every step, the pending addresses of a
\* name grow only by the forward of a query for that name, which appends its
\* sender, once, whether or not the address is already pending.
C18_PendingCountsForwards ==
    /\ []PendingMatchesForwards
    /\ [][ \A name \in Keys :
             IF ForwardedIteration /\ FirstName(io'.recv.data) = name
             THEN /\ name \in DOMAIN store'
                  /\ store'[name].addresses = Append(Pending(name), io'.recv.from)
             ELSE name \in DOMAIN store'
                      => Len(store'[name].addresses) <= Len(Pending(name))
         ]_vars

\* the same client asked twice for a name: it is pending twice, and two of its
\* queries are unanswered
C18_Witness ==
    /\ io.op = "local"
    /\ SingleQuestion(io.recv.data)
    /\ Len(io.trusted \o io.poisoned) = 1
    /\ ~SomeSendFailed(io)
    /\ Pending(FirstName(io.recv.data)) = <<"A", "A">>
    /\ unanswered["A"] = 2

\* the datagrams and their destinations, whatever the sends returned
Deliveries(sends) == [i \in 1..Len(sends) |-> [data |-> sends[i].data, to |-> sends[i].to]]

\* what the processing of the reply `data` delivers, reports and leaves in the
\* store: functions of the store, of the bytes and of the time of the drain,
\* not of the socket
ExpectedDeliveries(data) ==
    LET waiting == Pending(FirstName(data))
    IN  [i \in 1..Len(waiting) |-> [data |-> data, to |-> waiting[i]]]

ExpectedReports(data) ==
    IF FirstName(data) \in DOMAIN store
    THEN LET texts == AddressTexts(Answers(data))
         IN  [i \in 1..Len(texts) |-> [data |-> texts[i], to |-> "route"]]
    ELSE <<>>

ExpectedStore(data) ==
    IF FirstName(data) \in DOMAIN store
    THEN (FirstName(data) :> [addresses |-> <<>>, response |-> data, update_time |-> now])
             @@ store
    ELSE store

\* C19: the socket a reply arrives on has no part in its handling: on the
\* trusted and on the poisoned socket alike, the deliveries to the clients, the
\* route reports and the resulting store are the same functions of the store,
\* of the reply's bytes and of the time of the drain; a reply on the poisoned
\* socket for a blocked name is delivered and cached like any other.
C19_UpstreamSocketIrrelevant ==
    [][ \A drain \in {"trusted", "poisoned"} :
          ( /\ pc = drain
            /\ ServerIteration
            /\ Decodes(io'.recv.data)
            /\ Questions(io'.recv.data) # <<>> )
          => /\ Deliveries(io'.listener) = ExpectedDeliveries(io'.recv.data)
             /\ Deliveries(io'.reports) = ExpectedReports(io'.recv.data)
             /\ store' = ExpectedStore(io'.recv.data)
             /\ io'.trusted = <<>>
             /\ io'.poisoned = <<>>
      ]_vars

\* a reply for the blocked name came on the poisoned socket: it was sent to the
\* pending requester and it is in the store
C19_Witness ==
    /\ io.op = "poisoned"
    /\ Decodes(io.recv.data)
    /\ Questions(io.recv.data) # <<>>
    /\ is_blocked(FirstName(io.recv.data))
    /\ Len(io.listener) >= 1
    /\ io.listener[1].data = io.recv.data
    /\ FirstName(io.recv.data) \in DOMAIN store
    /\ store[FirstName(io.recv.data)].response = io.recv.data

\* the entry of the name holds an answer
HasAnswer(st, name) == name \in DOMAIN st /\ st[name].response # <<>>

\* C20: an entry that holds an answer holds one in every later state; an entry
\* starts without an answer and comes to hold one exactly in the steps that
\* process an upstream reply for its name, so it holds one iff such a reply has
\* been processed since it exists; and the update_time of an entry that holds an
\* answer never decreases.
C20_CachedAnswersMonotone ==
    [][ \A name \in Keys :
          /\ HasAnswer(store, name) => HasAnswer(store', name)
          /\ ReplyIterationFor(name) => HasAnswer(store', name)
          /\ ( ~HasAnswer(store, name) /\ ~ReplyIterationFor(name) )
                 => ~HasAnswer(store', name)
          /\ HasAnswer(store, name) => store'[name].update_time >= store[name].update_time
      ]_vars

\* the answer of an entry has expired and a new query for the name has been
\* forwarded: the entry keeps the old answer while the requester waits
C20_Witness ==
    /\ io.op = "local"
    /\ SingleQuestion(io.recv.data)
    /\ Len(io.trusted \o io.poisoned) = 1
    /\ ~SomeSendFailed(io)
    /\ HasAnswer(store, FirstName(io.recv.data))
    /\ ~Fresh(FirstName(io.recv.data), now)
    /\ store[FirstName(io.recv.data)].addresses = <<io.recv.from>>

====
